---- MODULE Spec2Model ----
(***************************************************************************)
(* script-exec (pkgs/script-exec/src/main.rs): a pool of `jobs` worker     *)
(* threads drains a mutex-guarded Vec<Script>, runs every script through   *)
(* run_script, reports lifecycle events to the OutputManager and folds the *)
(* outcomes into the AtomicBool all_successful, from which main computes   *)
(* the exit status.                                                        *)
(*                                                                         *)
(* A job is identified by its position in args.pairs (its title).  What    *)
(* the file system and the operating system answer for a job's path is an  *)
(* input, fixed per job:                                                   *)
(*   "missing"    Path::exists() is false                                  *)
(*   "ok"         the program runs and exits with status 0                 *)
(*   "fail"       the program runs and exits with a non-zero status        *)
(*   "spawnfail"  the path exists but Command::output() returns Err        *)
(*   "hang"       the program is started and never exits                   *)
(***************************************************************************)
EXTENDS Integers, Sequences, FiniteSets, TLC

\* Bounds of the model: length of args.pairs, value of args.jobs, and length
\* of a captured stdout or stderr.
MaxJobs == 2
MaxWorkers == 2
MaxOut == 3

PathKinds == {"missing", "ok", "fail", "spawnfail", "hang"}

Workers == 1..MaxWorkers

SeqsUpTo(S, n) == UNION {[1..k -> S] : k \in 0..n}

VARIABLES
    pairs,          \* args.pairs: per job, what its path does (PathKinds)
    jobs,           \* args.jobs: the worker count
    mainpc,         \* position of the main thread
    exitcode,       \* -1 while the process runs, then its exit status
    scripts,        \* the Vec<Script> behind the mutex (job ids)
    lockHolder,     \* worker holding the scripts mutex, 0 when free
    handles,        \* number of worker threads spawned so far
    joined,         \* number of handles main has joined so far
    wpc,            \* position of each worker thread
    script,         \* the job a worker owns, 0 when none
    all_successful, \* the AtomicBool
    chan,           \* OutputManager channel: commands sent, not yet received
    rendered,       \* per title, the commands the OutputManager has received
    ompc,           \* position of the OutputManager thread
    sent,           \* history: per title, the commands sent, in send order
    claimLog,       \* history: the job of every successful pop, in lock order
    executed,       \* history: jobs whose program was started
    loaded,         \* history: main has loaded all_successful
    result,         \* a std::process::Output: success, stdout, stderr
    output          \* the Option<String> run_script builds from result

vars == <<pairs, jobs, mainpc, exitcode, scripts, lockHolder, handles, joined,
          wpc, script, all_successful, chan, rendered, ompc, sent, claimLog,
          executed, loaded, result, output>>

N == Len(pairs)
JobIds == 1..N

\* The process is running: neither exit() was called nor main panicked.
Alive == exitcode = -1

----------------------------------------------------------------------------
\* OutputCommand values.  title is the job id; Terminate has no title and is
\* filed under 0.
AddTask(j) == [type |-> "AddTask", title |-> j, success |-> TRUE]
CompleteTask(j, ok) == [type |-> "CompleteTask", title |-> j, success |-> ok]
Error(j) == [type |-> "Error", title |-> j, success |-> FALSE]
Terminate == [type |-> "Terminate", title |-> 0, success |-> TRUE]

\* scripts.reverse()
RECURSIVE Reverse(_)
Reverse(s) == IF s = <<>> THEN <<>> ELSE Append(Reverse(Tail(s)), Head(s))

\* the Vec<Script> built from args.pairs, before the reverse
ScriptsOf(p) == [i \in 1..Len(p) |-> i]

\* Vec::pop: the last element and the vector without it
PopValue(v) == v[Len(v)]
PopRest(v) == SubSeq(v, 1, Len(v) - 1)

\* output_manager.send(cmd): enqueue on the channel
Send(cmd) ==
    /\ chan' = Append(chan, cmd)
    /\ sent' = [sent EXCEPT ![cmd.title] = Append(@, cmd)]

----------------------------------------------------------------------------
\* The output of a failed script (run_script, after Command::output()).
\* A text is the sequence of its characters.  The characters are valid
\* UTF-8, on which from_utf8_lossy changes nothing, and there is no "\r".
Chars == {"a", "b", "\n"}
Texts == SeqsUpTo(Chars, MaxOut)

\* the text split at every "\n" (str::split('\n')): one piece at least
RECURSIVE Split(_)
Split(t) ==
    IF \A k \in DOMAIN t : t[k] # "\n" THEN <<t>>
    ELSE LET k == CHOOSE i \in DOMAIN t :
                    t[i] = "\n" /\ \A h \in 1..(i - 1) : t[h] # "\n"
         IN  <<SubSeq(t, 1, k - 1)>> \o Split(SubSeq(t, k + 1, Len(t)))

\* fault: split('\n') instead of lines()
Lines_Split(t) == Split(t)

\* str::lines(): the pieces between the "\n", without the empty piece after
\* a final "\n" (and none at all for the empty text)
Lines(t) ==
    LET p == Split(t)
    IN  IF p[Len(p)] = <<>> THEN SubSeq(p, 1, Len(p) - 1) ELSE p

\* [String]::join(sep)
RECURSIVE Join(_, _)
Join(ls, sep) ==
    IF ls = <<>> THEN <<>>
    ELSE IF Len(ls) = 1 THEN ls[1]
    ELSE ls[1] \o sep \o Join(Tail(ls), sep)

OutputHeader == <<"O", "u", "t", "p", "u", "t", ":">>
ErrorHeader == <<"E", "r", "r", "o", "r", ":">>

\* output_lines as run_script fills it for a result that is no success
OutputLines(r) ==
    (IF r.stdout # <<>> THEN <<OutputHeader>> \o Lines(r.stdout) ELSE <<>>)
    \o (IF r.stderr # <<>> THEN <<ErrorHeader>> \o Lines(r.stderr) ELSE <<>>)

\* Option<String>: None, Some(text)
None == [built |-> TRUE, some |-> FALSE, text |-> <<>>]
Some(t) == [built |-> TRUE, some |-> TRUE, text |-> t]
NotBuilt == [built |-> FALSE, some |-> FALSE, text |-> <<>>]

NoResult == [success |-> TRUE, stdout |-> <<>>, stderr |-> <<>>]

\* let mut output = None; if !result.status.success() { .. Some(join) }
BuildOutput ==
    /\ ~output.built
    /\ output' = IF result.success THEN None
                 ELSE Some(Join(OutputLines(result), <<"\n">>))
    /\ UNCHANGED <<pairs, jobs, mainpc, exitcode, scripts, lockHolder, handles,
                   joined, wpc, script, all_successful, chan, rendered, ompc,
                   sent, claimLog, executed, loaded, result>>

Init ==
    /\ pairs \in SeqsUpTo(PathKinds, MaxJobs)
    /\ jobs \in 0..MaxWorkers
    /\ mainpc = "start"
    /\ exitcode = -1
    /\ scripts = <<>>
    /\ lockHolder = 0
    /\ handles = 0
    /\ joined = 0
    /\ wpc = [w \in Workers |-> "unspawned"]
    /\ script = [w \in Workers |-> 0]
    /\ all_successful = TRUE
    /\ chan = <<>>
    /\ rendered = [t \in 0..Len(pairs) |-> <<>>]
    /\ ompc = "none"
    /\ sent = [t \in 0..Len(pairs) |-> <<>>]
    /\ claimLog = <<>>
    /\ executed = {}
    /\ loaded = FALSE
    /\ result = NoResult
    /\ output = NotBuilt

\* run_script's own state for one result of Command::output(), whatever the
\* program printed and returned; no thread of the pool runs.
InitOutput ==
    /\ pairs = <<>>
    /\ jobs = 0
    /\ mainpc = "start"
    /\ exitcode = -1
    /\ scripts = <<>>
    /\ lockHolder = 0
    /\ handles = 0
    /\ joined = 0
    /\ wpc = [w \in Workers |-> "unspawned"]
    /\ script = [w \in Workers |-> 0]
    /\ all_successful = TRUE
    /\ chan = <<>>
    /\ rendered = [t \in {0} |-> <<>>]
    /\ ompc = "none"
    /\ sent = [t \in {0} |-> <<>>]
    /\ claimLog = <<>>
    /\ executed = {}
    /\ loaded = FALSE
    /\ result \in [success : BOOLEAN, stdout : Texts, stderr : Texts]
    /\ output = NotBuilt

NextOutput == BuildOutput

SpecOutput == InitOutput /\ [][NextOutput]_vars

----------------------------------------------------------------------------
\* main

\* if args.pairs.is_empty() { exit(1) }
MainEmptyExit ==
    /\ Alive /\ mainpc = "start"
    /\ pairs = <<>>
    /\ mainpc' = "exited"
    /\ exitcode' = 1
    /\ UNCHANGED <<result, output, pairs, jobs, scripts, lockHolder, handles, joined, wpc,
                   script, all_successful, chan, rendered, ompc, sent,
                   claimLog, executed, loaded>>

\* fault: the empty list is not rejected before the setup
MainSetup_NoCheck ==
    /\ Alive /\ mainpc = "start"
    /\ ompc' = "running"
    /\ scripts' = Reverse(ScriptsOf(pairs))
    /\ all_successful' = TRUE
    /\ mainpc' = "spawn"
    /\ UNCHANGED <<result, output, pairs, jobs, exitcode, lockHolder, handles, joined, wpc,
                   script, chan, rendered, sent, claimLog, executed, loaded>>

\* fault: scripts.reverse() is left out
MainSetup_NoReverse ==
    /\ Alive /\ mainpc = "start"
    /\ pairs # <<>>
    /\ ompc' = "running"
    /\ scripts' = ScriptsOf(pairs)
    /\ all_successful' = TRUE
    /\ mainpc' = "spawn"
    /\ UNCHANGED <<result, output, pairs, jobs, exitcode, lockHolder, handles, joined, wpc,
                   script, chan, rendered, sent, claimLog, executed, loaded>>

\* OutputManager::new, the reversed Vec<Script> in its mutex, the flag
MainSetup ==
    /\ Alive /\ mainpc = "start"
    /\ pairs # <<>>
    /\ ompc' = "running"
    /\ scripts' = Reverse(ScriptsOf(pairs))
    /\ all_successful' = TRUE
    /\ mainpc' = "spawn"
    /\ UNCHANGED <<result, output, pairs, jobs, exitcode, lockHolder, handles, joined, wpc,
                   script, chan, rendered, sent, claimLog, executed, loaded>>

\* fault: for _ in 0..max(args.jobs, 1)
MainSpawn_AtLeastOne ==
    /\ Alive /\ mainpc = "spawn"
    /\ handles' = (IF jobs = 0 THEN 1 ELSE jobs)
    /\ wpc' = [w \in Workers |->
                 IF w <= jobs \/ w = 1 THEN "lock" ELSE "unspawned"]
    /\ mainpc' = "join"
    /\ UNCHANGED <<result, output, pairs, jobs, exitcode, scripts, lockHolder, joined, script,
                   all_successful, chan, rendered, ompc, sent, claimLog,
                   executed, loaded>>

\* for _ in 0..args.jobs { handles.push(thread::spawn(..)) }
\* The loop is one step: a spawned thread's first step is its lock(), and
\* until it takes it nothing tells it from a thread not yet spawned.
MainSpawn ==
    /\ Alive /\ mainpc = "spawn"
    /\ handles' = jobs
    /\ wpc' = [w \in Workers |-> IF w <= jobs THEN "lock" ELSE "unspawned"]
    /\ mainpc' = "join"
    /\ UNCHANGED <<result, output, pairs, jobs, exitcode, scripts, lockHolder, joined, script,
                   all_successful, chan, rendered, ompc, sent, claimLog,
                   executed, loaded>>

\* fault: the handle is dropped instead of joined, main does not wait
MainJoin_Detached ==
    /\ Alive /\ mainpc = "join"
    /\ joined < handles
    /\ joined' = joined + 1
    /\ UNCHANGED <<result, output, pairs, jobs, mainpc, exitcode, scripts, lockHolder, handles,
                   wpc, script, all_successful, chan, rendered, ompc, sent,
                   claimLog, executed, loaded>>

\* handle.join().unwrap(): blocks until the thread ended; Ok when it returned
MainJoin ==
    /\ Alive /\ mainpc = "join"
    /\ joined < handles
    /\ wpc[joined + 1] = "done"
    /\ joined' = joined + 1
    /\ UNCHANGED <<result, output, pairs, jobs, mainpc, exitcode, scripts, lockHolder, handles,
                   wpc, script, all_successful, chan, rendered, ompc, sent,
                   claimLog, executed, loaded>>

\* fault: the Err of handle.join() is dropped instead of unwrapped
MainJoinPanic_Ignore ==
    /\ Alive /\ mainpc = "join"
    /\ joined < handles
    /\ wpc[joined + 1] = "panicked"
    /\ joined' = joined + 1
    /\ UNCHANGED <<result, output, pairs, jobs, mainpc, exitcode, scripts, lockHolder, handles,
                   wpc, script, all_successful, chan, rendered, ompc, sent,
                   claimLog, executed, loaded>>

\* handle.join().unwrap() on a thread that panicked: main panics
MainJoinPanic ==
    /\ Alive /\ mainpc = "join"
    /\ joined < handles
    /\ wpc[joined + 1] = "panicked"
    /\ mainpc' = "panicked"
    /\ exitcode' = 101
    /\ UNCHANGED <<result, output, pairs, jobs, scripts, lockHolder, handles, joined, wpc,
                   script, all_successful, chan, rendered, ompc, sent,
                   claimLog, executed, loaded>>

\* output_manager.send(OutputCommand::Terminate)
MainTerminate ==
    /\ Alive /\ mainpc = "join"
    /\ joined = handles
    /\ Send(Terminate)
    /\ mainpc' = "join_om"
    /\ UNCHANGED <<result, output, pairs, jobs, exitcode, scripts, lockHolder, handles, joined,
                   wpc, script, all_successful, rendered, ompc, claimLog,
                   executed, loaded>>

\* fault: the OutputManager thread is not joined before the flag is loaded
MainJoinOutput_Detached ==
    /\ Alive /\ mainpc = "join_om"
    /\ mainpc' = "load"
    /\ UNCHANGED <<result, output, pairs, jobs, exitcode, scripts, lockHolder, handles, joined,
                   wpc, script, all_successful, chan, rendered, ompc, sent,
                   claimLog, executed, loaded>>

\* output_manager_handle.join().unwrap()
MainJoinOutput ==
    /\ Alive /\ mainpc = "join_om"
    /\ ompc = "finished"
    /\ mainpc' = "load"
    /\ UNCHANGED <<result, output, pairs, jobs, exitcode, scripts, lockHolder, handles, joined,
                   wpc, script, all_successful, chan, rendered, ompc, sent,
                   claimLog, executed, loaded>>

\* if !all_successful.load() { exit(1) }, else main returns
MainLoadExit ==
    /\ Alive /\ mainpc = "load"
    /\ loaded' = TRUE
    /\ exitcode' = IF all_successful THEN 0 ELSE 1
    /\ mainpc' = "exited"
    /\ UNCHANGED <<result, output, pairs, jobs, scripts, lockHolder, handles, joined, wpc,
                   script, all_successful, chan, rendered, ompc, sent,
                   claimLog, executed>>

----------------------------------------------------------------------------
\* worker thread: loop { lock; if is_empty { break }; pop; run_script }

\* scripts_mutex.lock().unwrap()
WorkerLock(w) ==
    /\ Alive /\ wpc[w] = "lock"
    /\ lockHolder = 0
    /\ lockHolder' = w
    /\ wpc' = [wpc EXCEPT ![w] = "locked"]
    /\ UNCHANGED <<result, output, pairs, jobs, mainpc, exitcode, scripts, handles, joined,
                   script, all_successful, chan, rendered, ompc, sent,
                   claimLog, executed, loaded>>

\* fault: `continue` instead of `break` on the empty queue
WorkerBreak_Spin(w) ==
    /\ Alive /\ wpc[w] = "locked"
    /\ scripts = <<>>
    /\ lockHolder' = 0
    /\ wpc' = [wpc EXCEPT ![w] = "lock"]
    /\ UNCHANGED <<result, output, pairs, jobs, mainpc, exitcode, scripts, handles, joined,
                   script, all_successful, chan, rendered, ompc, sent,
                   claimLog, executed, loaded>>

\* if script_mutex_guard.is_empty() { break }: the guard is dropped
WorkerBreak(w) ==
    /\ Alive /\ wpc[w] = "locked"
    /\ scripts = <<>>
    /\ lockHolder' = 0
    /\ wpc' = [wpc EXCEPT ![w] = "done"]
    /\ UNCHANGED <<result, output, pairs, jobs, mainpc, exitcode, scripts, handles, joined,
                   script, all_successful, chan, rendered, ompc, sent,
                   claimLog, executed, loaded>>

\* fault: the guard is not scoped to the pop and lives on in run_script
WorkerPop_HoldLock(w) ==
    /\ Alive /\ wpc[w] = "locked"
    /\ scripts # <<>>
    /\ script' = [script EXCEPT ![w] = PopValue(scripts)]
    /\ scripts' = PopRest(scripts)
    /\ claimLog' = Append(claimLog, PopValue(scripts))
    /\ wpc' = [wpc EXCEPT ![w] = "run"]
    /\ UNCHANGED <<result, output, pairs, jobs, mainpc, exitcode, lockHolder, handles, joined,
                   all_successful, chan, rendered, ompc, sent, executed,
                   loaded>>

\* fault: the last script is cloned (last()) and left in the Vec
WorkerPop_Peek(w) ==
    /\ Alive /\ wpc[w] = "locked"
    /\ scripts # <<>>
    /\ script' = [script EXCEPT ![w] = PopValue(scripts)]
    /\ claimLog' = Append(claimLog, PopValue(scripts))
    /\ lockHolder' = 0
    /\ wpc' = [wpc EXCEPT ![w] = "run"]
    /\ UNCHANGED <<result, output, pairs, jobs, mainpc, exitcode, scripts, handles, joined,
                   all_successful, chan, rendered, ompc, sent, executed,
                   loaded>>

\* script_mutex_guard.pop().unwrap(), then the guard is dropped
WorkerPop(w) ==
    /\ Alive /\ wpc[w] = "locked"
    /\ scripts # <<>>
    /\ script' = [script EXCEPT ![w] = PopValue(scripts)]
    /\ scripts' = PopRest(scripts)
    /\ claimLog' = Append(claimLog, PopValue(scripts))
    /\ lockHolder' = 0
    /\ wpc' = [wpc EXCEPT ![w] = "run"]
    /\ UNCHANGED <<result, output, pairs, jobs, mainpc, exitcode, handles, joined,
                   all_successful, chan, rendered, ompc, sent, executed,
                   loaded>>

----------------------------------------------------------------------------
\* run_script(script, output_manager, all_successful)

\* !Path::new(script_path).exists(): send OutputCommand::Error
RunScriptMissing(w) ==
    /\ Alive /\ wpc[w] = "run"
    /\ pairs[script[w]] = "missing"
    /\ Send(Error(script[w]))
    /\ wpc' = [wpc EXCEPT ![w] = "store_missing"]
    /\ UNCHANGED <<result, output, pairs, jobs, mainpc, exitcode, scripts, lockHolder, handles,
                   joined, script, all_successful, rendered, ompc, claimLog,
                   executed, loaded>>

\* fault: a missing script ends the worker's loop
RunScriptStoreMissing_Break(w) ==
    /\ Alive /\ wpc[w] = "store_missing"
    /\ all_successful' = FALSE
    /\ script' = [script EXCEPT ![w] = 0]
    /\ wpc' = [wpc EXCEPT ![w] = "done"]
    /\ UNCHANGED <<result, output, pairs, jobs, mainpc, exitcode, scripts, lockHolder, handles,
                   joined, chan, rendered, ompc, sent, claimLog, executed,
                   loaded>>

\* fault: the store is forgotten on the missing-path branch
RunScriptStoreMissing_NoStore(w) ==
    /\ Alive /\ wpc[w] = "store_missing"
    /\ script' = [script EXCEPT ![w] = 0]
    /\ wpc' = [wpc EXCEPT ![w] = "lock"]
    /\ UNCHANGED <<result, output, pairs, jobs, mainpc, exitcode, scripts, lockHolder, handles,
                   joined, all_successful, chan, rendered, ompc, sent,
                   claimLog, executed, loaded>>

\* all_successful.store(false); return
RunScriptStoreMissing(w) ==
    /\ Alive /\ wpc[w] = "store_missing"
    /\ all_successful' = FALSE
    /\ script' = [script EXCEPT ![w] = 0]
    /\ wpc' = [wpc EXCEPT ![w] = "lock"]
    /\ UNCHANGED <<result, output, pairs, jobs, mainpc, exitcode, scripts, lockHolder, handles,
                   joined, chan, rendered, ompc, sent, claimLog, executed,
                   loaded>>

\* fault: the program is started and not waited for (spawn(), not output())
RunScriptAddTask_Async(w) ==
    /\ Alive /\ wpc[w] = "run"
    /\ pairs[script[w]] # "missing"
    /\ Send(AddTask(script[w]))
    /\ script' = [script EXCEPT ![w] = 0]
    /\ wpc' = [wpc EXCEPT ![w] = "lock"]
    /\ UNCHANGED <<result, output, pairs, jobs, mainpc, exitcode, scripts, lockHolder, handles,
                   joined, all_successful, rendered, ompc, claimLog, executed,
                   loaded>>

\* fault: AddTask is not sent before the program is run
RunScriptAddTask_NoSend(w) ==
    /\ Alive /\ wpc[w] = "run"
    /\ pairs[script[w]] # "missing"
    /\ wpc' = [wpc EXCEPT ![w] = "spawn"]
    /\ UNCHANGED <<result, output, pairs, jobs, mainpc, exitcode, scripts, lockHolder, handles,
                   joined, script, all_successful, chan, rendered, ompc, sent,
                   claimLog, executed, loaded>>

\* the path exists: send OutputCommand::AddTask
RunScriptAddTask(w) ==
    /\ Alive /\ wpc[w] = "run"
    /\ pairs[script[w]] # "missing"
    /\ Send(AddTask(script[w]))
    /\ wpc' = [wpc EXCEPT ![w] = "spawn"]
    /\ UNCHANGED <<result, output, pairs, jobs, mainpc, exitcode, scripts, lockHolder, handles,
                   joined, script, all_successful, rendered, ompc, claimLog,
                   executed, loaded>>

\* fault: all_successful.store(result.status.success()) on every result
RunScriptSuccess_StoreStatus(w) ==
    /\ Alive /\ wpc[w] = "spawn"
    /\ pairs[script[w]] = "ok"
    /\ executed' = executed \cup {script[w]}
    /\ all_successful' = TRUE
    /\ Send(CompleteTask(script[w], TRUE))
    /\ script' = [script EXCEPT ![w] = 0]
    /\ wpc' = [wpc EXCEPT ![w] = "lock"]
    /\ UNCHANGED <<result, output, pairs, jobs, mainpc, exitcode, scripts, lockHolder, handles,
                   joined, rendered, ompc, claimLog, loaded>>

\* Command::new(script_path).output() of a program that exits with status 0,
\* then send OutputCommand::CompleteTask { success: true, output: None }.
\* What lies between the program's exit and the send is local to the thread.
RunScriptSuccess(w) ==
    /\ Alive /\ wpc[w] = "spawn"
    /\ pairs[script[w]] = "ok"
    /\ executed' = executed \cup {script[w]}
    /\ Send(CompleteTask(script[w], TRUE))
    /\ script' = [script EXCEPT ![w] = 0]
    /\ wpc' = [wpc EXCEPT ![w] = "lock"]
    /\ UNCHANGED <<result, output, pairs, jobs, mainpc, exitcode, scripts, lockHolder, handles,
                   joined, all_successful, rendered, ompc, claimLog, loaded>>

\* fault: the store is forgotten on the non-zero branch
RunScriptFailure_NoStore(w) ==
    /\ Alive /\ wpc[w] = "spawn"
    /\ pairs[script[w]] = "fail"
    /\ executed' = executed \cup {script[w]}
    /\ wpc' = [wpc EXCEPT ![w] = "complete"]
    /\ UNCHANGED <<result, output, pairs, jobs, mainpc, exitcode, scripts, lockHolder, handles,
                   joined, script, all_successful, chan, rendered, ompc, sent,
                   claimLog, loaded>>

\* .output() of a program that exits with a non-zero status, then
\* if !result.status.success() { all_successful.store(false); .. }
RunScriptFailure(w) ==
    /\ Alive /\ wpc[w] = "spawn"
    /\ pairs[script[w]] = "fail"
    /\ executed' = executed \cup {script[w]}
    /\ all_successful' = FALSE
    /\ wpc' = [wpc EXCEPT ![w] = "complete"]
    /\ UNCHANGED <<result, output, pairs, jobs, mainpc, exitcode, scripts, lockHolder, handles,
                   joined, script, chan, rendered, ompc, sent, claimLog,
                   loaded>>

\* .output() on a program that never exits: the worker waits for ever
RunScriptOutputHang(w) ==
    /\ Alive /\ wpc[w] = "spawn"
    /\ pairs[script[w]] = "hang"
    /\ executed' = executed \cup {script[w]}
    /\ wpc' = [wpc EXCEPT ![w] = "wait"]
    /\ UNCHANGED <<result, output, pairs, jobs, mainpc, exitcode, scripts, lockHolder, handles,
                   joined, script, all_successful, chan, rendered, ompc,
                   sent, claimLog, loaded>>

\* .output() is Err: .expect("Failed to execute script") panics the thread
RunScriptOutputPanic(w) ==
    /\ Alive /\ wpc[w] = "spawn"
    /\ pairs[script[w]] = "spawnfail"
    /\ script' = [script EXCEPT ![w] = 0]
    /\ wpc' = [wpc EXCEPT ![w] = "panicked"]
    /\ UNCHANGED <<result, output, pairs, jobs, mainpc, exitcode, scripts, lockHolder, handles,
                   joined, all_successful, chan, rendered, ompc, sent,
                   claimLog, executed, loaded>>

\* the failed script's send of OutputCommand::CompleteTask { success: false }
RunScriptComplete(w) ==
    /\ Alive /\ wpc[w] = "complete"
    /\ Send(CompleteTask(script[w], FALSE))
    /\ script' = [script EXCEPT ![w] = 0]
    /\ wpc' = [wpc EXCEPT ![w] = "lock"]
    /\ UNCHANGED <<result, output, pairs, jobs, mainpc, exitcode, scripts, lockHolder, handles,
                   joined, all_successful, rendered, ompc, claimLog, executed,
                   loaded>>

----------------------------------------------------------------------------
\* OutputManager thread: receives the commands in channel order and hands
\* each to the printer, which keeps them per task; Terminate ends its loop.
OutputReceive ==
    /\ Alive /\ ompc = "running"
    /\ chan # <<>>
    /\ rendered' = [rendered EXCEPT ![Head(chan).title] = Append(@, Head(chan))]
    /\ chan' = Tail(chan)
    /\ ompc' = IF Head(chan).type = "Terminate" THEN "finished" ELSE "running"
    /\ UNCHANGED <<result, output, pairs, jobs, mainpc, exitcode, scripts, lockHolder, handles,
                   joined, wpc, script, all_successful, sent, claimLog,
                   executed, loaded>>

----------------------------------------------------------------------------
Next ==
    \/ MainEmptyExit
    \/ MainSetup
    \/ MainSpawn
    \/ MainJoin
    \/ MainJoinPanic
    \/ MainTerminate
    \/ MainJoinOutput
    \/ MainLoadExit
    \/ \E w \in Workers : WorkerLock(w)
    \/ \E w \in Workers : WorkerBreak(w)
    \/ \E w \in Workers : WorkerPop(w)
    \/ \E w \in Workers : RunScriptMissing(w)
    \/ \E w \in Workers : RunScriptStoreMissing(w)
    \/ \E w \in Workers : RunScriptAddTask(w)
    \/ \E w \in Workers : RunScriptSuccess(w)
    \/ \E w \in Workers : RunScriptFailure(w)
    \/ \E w \in Workers : RunScriptOutputHang(w)
    \/ \E w \in Workers : RunScriptOutputPanic(w)
    \/ \E w \in Workers : RunScriptComplete(w)
    \/ OutputReceive

Spec == Init /\ [][Next]_vars

\* The steps of each thread.
MainStep ==
    \/ MainEmptyExit
    \/ MainSetup
    \/ MainSpawn
    \/ MainJoin
    \/ MainJoinPanic
    \/ MainTerminate
    \/ MainJoinOutput
    \/ MainLoadExit

WorkerStep(w) ==
    \/ WorkerLock(w)
    \/ WorkerBreak(w)
    \/ WorkerPop(w)
    \/ RunScriptMissing(w)
    \/ RunScriptStoreMissing(w)
    \/ RunScriptAddTask(w)
    \/ RunScriptSuccess(w)
    \/ RunScriptFailure(w)
    \/ RunScriptOutputHang(w)
    \/ RunScriptOutputPanic(w)
    \/ RunScriptComplete(w)

\* The operating system schedules every thread that can run: a thread whose
\* next step stays possible takes it.  (A thread waiting for the mutex is
\* promised nothing while others keep taking it.)
FairSpec ==
    /\ Spec
    /\ WF_vars(MainStep)
    /\ \A w \in Workers : WF_vars(WorkerStep(w))
    /\ WF_vars(OutputReceive)

TypeOK ==
    /\ pairs \in SeqsUpTo(PathKinds, MaxJobs)
    /\ jobs \in 0..MaxWorkers
    /\ exitcode \in {-1, 0, 1, 101}
    /\ lockHolder \in 0..MaxWorkers
    /\ handles \in 0..jobs /\ joined \in 0..handles
    /\ \A w \in Workers : script[w] \in 0..N
    /\ all_successful \in BOOLEAN

----------------------------------------------------------------------------
\* Vocabulary of the properties

IsPrefix(s, t) == Len(s) <= Len(t) /\ SubSeq(t, 1, Len(s)) = s

\* main is past the setup: the queue, the flag and the OutputManager exist
SetUp == ompc # "none"

\* positions of the terminal commands (CompleteTask or Error) in a sequence
TerminalAt(cmds) ==
    {k \in DOMAIN cmds : cmds[k].type \in {"CompleteTask", "Error"}}

\* positions of the commands of title j in the channel
InFlight(j) == {k \in DOMAIN chan : chan[k].title = j}

TerminateSent == sent[0] # <<>>

\* number of times job j was popped, and of times it lies in the queue
Claims(j) == Cardinality({k \in DOMAIN claimLog : claimLog[k] = j})
Queued(j) == Cardinality({k \in DOMAIN scripts : scripts[k] = j})

\* job j was popped and the run_script call on it has returned
Returned(j) == Claims(j) > 0 /\ \A w \in Workers : script[w] # j

\* a failure of job j has been reported: an Error, or a failed CompleteTask
FailureReported(j) ==
    \E k \in DOMAIN sent[j] : sent[j][k].type \in {"CompleteTask", "Error"}
                              /\ ~sent[j][k].success

AllOk == \A j \in JobIds : pairs[j] = "ok"

\* every program that is started exits and every start succeeds
Terminating == \A j \in JobIds : pairs[j] \in {"missing", "ok", "fail"}

----------------------------------------------------------------------------
\* C1: once the queue is set up, every submitted job is either still in the
\* queue (once) or was popped exactly once, never both; a job a worker owns
\* was popped, is no longer in the queue and is owned by no other worker.
C1_ClaimedExactlyOnce ==
    SetUp =>
        /\ \A j \in JobIds : Queued(j) + Claims(j) = 1
        /\ \A w \in Workers : script[w] # 0 =>
              /\ script[w] \in JobIds
              /\ Claims(script[w]) = 1
              /\ \A v \in Workers \ {w} : script[v] # script[w]

\* two workers own different jobs at the same time, and the queue is drained
C1_Witness ==
    /\ script[1] # 0 /\ script[2] # 0
    /\ scripts = <<>>

\* C2: when Terminate has been sent, every one of the N jobs has exactly one
\* terminal command (CompleteTask or Error) among the commands sent,
\* whatever the worker count.
C2_OneTerminalPerJob ==
    TerminateSent =>
        \A j \in JobIds : Cardinality(TerminalAt(sent[j])) = 1

\* C2 with at least one worker: holds.
C2_OneTerminalPerJobWithWorkers ==
    (TerminateSent /\ jobs >= 1) =>
        \A j \in JobIds : Cardinality(TerminalAt(sent[j])) = 1

\* C3: Terminate is sent at most once, exactly once when main is past the
\* send, and only when every worker has been spawned, has left its loop and
\* has been joined; it is the last command of the channel, and when the
\* OutputManager receives it, it has received every command of every job.
C3_TerminateLast ==
    /\ Len(sent[0]) <= 1
    /\ (mainpc \in {"join_om", "load"} \/ loaded) => Len(sent[0]) = 1
    /\ TerminateSent =>
          /\ handles = jobs /\ joined = jobs
          /\ \A w \in Workers : wpc[w] = (IF w <= jobs THEN "done" ELSE "unspawned")
    /\ \A k \in DOMAIN chan : chan[k].type = "Terminate" => k = Len(chan)
    /\ rendered[0] # <<>> =>
          /\ chan = <<>>
          /\ \A j \in JobIds : rendered[j] = sent[j]

\* two jobs, one worker: the OutputManager has received Terminate after both
\* jobs' terminal commands
C3_Witness ==
    /\ N = 2 /\ jobs = 1
    /\ rendered[0] = <<Terminate>>
    /\ \A j \in JobIds : TerminalAt(rendered[j]) # {}

\* C4: when the process has ended, its exit code is 0 exactly if the job list
\* is not empty and every job's script exists and exits with status 0, and it
\* is 1 if the list was empty, a path was missing or a script exited non-zero.
C4_ExitCode ==
    exitcode # -1 =>
        /\ exitcode = 0 <=> (pairs # <<>> /\ AllOk)
        /\ (pairs = <<>> \/ \E j \in JobIds : pairs[j] \in {"missing", "fail"})
              => exitcode = 1

\* C4 with at least one worker and a job list in which every program that is
\* started exits: holds.
C4_ExitCodeWithWorkers ==
    (jobs >= 1 /\ Terminating) => C4_ExitCode

\* C5: for a job list with fixed outcomes the flag main loads is a function
\* of the list alone, the same for every worker count.  With one worker or
\* more it is AllOk (C5_FlagWithWorkers), so it is AllOk for all.
C5_FlagIndependentOfWorkers ==
    (loaded /\ Terminating) => (all_successful <=> AllOk)

C5_FlagWithWorkers ==
    (loaded /\ Terminating /\ jobs >= 1) => (all_successful <=> AllOk)

\* C6: a worker leaves its loop only on an empty queue, never because a job
\* failed; and once Terminate is sent in a run in which a missing script or
\* a non-zero exit was reported, every job of the list was popped and has
\* its one terminal command.
C6_FailureIsolated ==
    /\ \A w \in Workers : wpc[w] = "done" => scripts = <<>>
    /\ (TerminateSent /\ \E j \in JobIds : FailureReported(j)) =>
          \A i \in JobIds : Claims(i) = 1 /\ Cardinality(TerminalAt(sent[i])) = 1

\* a failed first job, then a sibling with its own terminal command, then
\* Terminate
C6_Witness ==
    /\ N = 2 /\ TerminateSent
    /\ FailureReported(1)
    /\ sent[2] = <<AddTask(2), CompleteTask(2, TRUE)>>

\* C7: a job whose path is missing is never executed, its only command is an
\* Error (no AddTask, no CompleteTask), and when run_script has returned the
\* Error was sent exactly once and the flag is false.
C7_MissingScript ==
    \A j \in JobIds : pairs[j] = "missing" =>
        /\ j \notin executed
        /\ sent[j] \in {<<>>, <<Error(j)>>}
        /\ Returned(j) => (sent[j] = <<Error(j)>> /\ ~all_successful)

\* run_script has returned on a missing path, its worker is back in the loop
C7_Witness ==
    \E j \in JobIds : pairs[j] = "missing" /\ Returned(j)

\* C8: the flag is true initially, and a step from a state in which it is
\* false leads to a state in which it is false.
C8_FlagMonotone ==
    /\ all_successful = TRUE
    /\ [][all_successful = FALSE => all_successful' = FALSE]_vars

\* a success is folded in after a failure: the flag stays false
C8_Witness ==
    /\ ~all_successful
    /\ \E i, j \in JobIds :
          /\ Claims(i) = 1 /\ Claims(j) = 1 /\ claimLog[1] = i /\ i # j
          /\ FailureReported(i)
          /\ sent[j] = <<AddTask(j), CompleteTask(j, TRUE)>>

\* C9: when main is about to load the flag, and after, every worker was
\* spawned, has left its loop and was joined, and the OutputManager thread
\* has received Terminate and ended with an empty channel, so that no thread
\* is left that could store to the flag or send.
C9_LoadAfterJoin ==
    (mainpc = "load" \/ loaded) =>
        /\ handles = jobs /\ joined = jobs
        /\ \A w \in Workers : wpc[w] = (IF w <= jobs THEN "done" ELSE "unspawned")
        /\ \A w \in Workers : script[w] = 0
        /\ lockHolder = 0
        /\ ompc = "finished"
        /\ rendered[0] = <<Terminate>>
        /\ chan = <<>>

\* the flag was loaded after two workers stored a failure
C9_Witness ==
    /\ loaded /\ jobs = 2 /\ exitcode = 1
    /\ \A j \in JobIds : FailureReported(j)

\* C10 as stated: every terminal command (CompleteTask or Error) the
\* OutputManager has received for a job was preceded by the job's AddTask.
C10_QueuedBeforeTerminal ==
    \A j \in JobIds : \A k \in TerminalAt(rendered[j]) :
        \E i \in 1..(k - 1) : rendered[j][i].type = "AddTask"

\* the commands a job may have, in order
Lifecycle(j) ==
    IF pairs[j] = "missing" THEN <<Error(j)>>
    ELSE <<AddTask(j), CompleteTask(j, pairs[j] = "ok")>>

\* C10 amended: the commands sent for a job are a prefix of AddTask then
\* CompleteTask if its path exists, and of a lone Error (no AddTask) if it is
\* missing; what the OutputManager has received for the job is a prefix of
\* what was sent, the rest being in the channel.
C10_LifecycleOrder ==
    \A j \in JobIds :
        /\ IsPrefix(sent[j], Lifecycle(j))
        /\ IsPrefix(rendered[j], sent[j])
        /\ Len(rendered[j]) + Cardinality(InFlight(j)) = Len(sent[j])

\* the OutputManager has received AddTask then CompleteTask of one job and
\* the lone Error of another
C10_Witness ==
    /\ \E j \in JobIds : rendered[j] = <<AddTask(j), CompleteTask(j, FALSE)>>
    /\ \E j \in JobIds : rendered[j] = <<Error(j)>>

\* C11: with an empty job list no OutputManager is created, no worker is
\* spawned, nothing is sent and nothing is popped; the only step is exit(1).
C11_EmptyList ==
    pairs = <<>> =>
        /\ ompc = "none"
        /\ handles = 0 /\ \A w \in Workers : wpc[w] = "unspawned"
        /\ chan = <<>> /\ sent[0] = <<>> /\ rendered[0] = <<>>
        /\ claimLog = <<>> /\ executed = {}
        /\ mainpc \in {"start", "exited"}
        /\ exitcode = (IF mainpc = "exited" THEN 1 ELSE -1)

\* the process has ended on the empty list, with a worker count that would
\* have spawned workers
C11_Witness ==
    pairs = <<>> /\ jobs >= 1 /\ exitcode = 1

\* a job whose program could not be started and whose worker has unwound
Aborted(j) ==
    /\ pairs[j] = "spawnfail"
    /\ Claims(j) > 0
    /\ \A w \in Workers : script[w] # j

\* C14: a job whose path exists and whose program cannot be started is never
\* executed and never gets a terminal command; once its worker has panicked
\* the job has its AddTask alone, Terminate has not been sent and is not sent
\* later, and the process does not end with status 0 (it runs on, or ends
\* with the status of main's panic).
C14_SpawnFailureAborts ==
    \A j \in JobIds : pairs[j] = "spawnfail" =>
        /\ j \notin executed
        /\ TerminalAt(sent[j]) = {}
        /\ Aborted(j) =>
              /\ sent[j] = <<AddTask(j)>>
              /\ \E w \in Workers : wpc[w] = "panicked"
              /\ ~TerminateSent
              /\ mainpc \in {"join", "panicked"}
              /\ exitcode \in {-1, 101}

\* main has panicked in the join of the worker that panicked, after the
\* sibling job completed
C14_Witness ==
    /\ exitcode = 101
    /\ \E j \in JobIds : Aborted(j)
    /\ \E j \in JobIds : sent[j] = <<AddTask(j), CompleteTask(j, TRUE)>>

\* the worker is inside run_script
InRunScript(w) ==
    wpc[w] \in {"run", "store_missing", "spawn", "wait", "complete"}

\* C16: the mutex is held by a worker only between its lock() and its
\* pop-or-break; a worker that is inside run_script (sending, running or
\* waiting for a program) does not hold it.
C16_LockOnlyForPop ==
    /\ lockHolder # 0 => wpc[lockHolder] = "locked"
    /\ \A w \in Workers : wpc[w] = "locked" => lockHolder = w
    /\ \A w \in Workers : InRunScript(w) => lockHolder # w

\* one worker waits on a hung program while the other holds the lock
C16_Witness ==
    \E w, v \in Workers : wpc[w] = "wait" /\ lockHolder = v /\ v # w

\* jobs popped that have no terminal command yet
Unfinished == {j \in JobIds : Claims(j) > 0 /\ TerminalAt(sent[j]) = {}}

\* C17: the jobs popped and without a terminal command are at most as many
\* as the workers that are in run_script before its last send or have
\* panicked there, hence at most args.jobs; each of them that a live worker
\* owns is owned by one worker, and a worker owns one job at most.
C17_InFlightBound ==
    /\ Cardinality(Unfinished) <=
          Cardinality({w \in Workers :
                          wpc[w] \in {"run", "spawn", "wait", "complete", "panicked"}})
    /\ Cardinality(Unfinished) <= jobs
    /\ \A j \in Unfinished :
          Cardinality({w \in Workers : script[w] = j}) <= 1
    /\ \A w \in Workers : script[w] # 0 <=> InRunScript(w)

\* two workers, each with a job in flight
C17_Witness ==
    jobs = 2 /\ Cardinality(Unfinished) = 2

\* C18: the k-th successful pop returns the k-th job of args.pairs; with one
\* worker a command of a job is sent only when every job before it has its
\* terminal command.
C18_SubmissionOrder ==
    /\ \A k \in DOMAIN claimLog : claimLog[k] = k
    /\ jobs = 1 =>
          \A j \in JobIds : sent[j] # <<>> =>
              \A i \in 1..(j - 1) : TerminalAt(sent[i]) # {}

\* two workers have popped the two jobs
C18_Witness ==
    Len(claimLog) = 2 /\ N = 2 /\ script[1] # 0 /\ script[2] # 0

\* C19: with a worker count of 0 and jobs in the list no worker is spawned,
\* no job is popped or run, no AddTask, CompleteTask or Error is sent; when
\* main ends, Terminate is the one command sent and the exit status is 0.
C19_NoWorkers ==
    (jobs = 0 /\ pairs # <<>>) =>
        /\ \A w \in Workers : wpc[w] = "unspawned"
        /\ claimLog = <<>> /\ executed = {}
        /\ \A j \in JobIds : sent[j] = <<>>
        /\ all_successful
        /\ exitcode \in {-1, 0}
        /\ mainpc = "exited" => (exitcode = 0 /\ sent[0] = <<Terminate>>)

\* the process ended with status 0 on a list of scripts that fail
C19_Witness ==
    /\ jobs = 0 /\ exitcode = 0
    /\ pairs # <<>> /\ \A j \in JobIds : pairs[j] \in {"fail", "missing"}

\* C20: whenever a CompleteTask with success = false has been sent, the flag
\* is false.
C20_StoreBeforeComplete ==
    \A j \in JobIds :
        (\E k \in DOMAIN sent[j] :
            sent[j][k].type = "CompleteTask" /\ ~sent[j][k].success)
        => ~all_successful

\* a failed CompleteTask has been sent
C20_Witness ==
    \E j \in JobIds : sent[j] = <<AddTask(j), CompleteTask(j, FALSE)>>

\* one job's program never exits, the others' paths are missing or their
\* programs exit
OneHang ==
    \E h \in JobIds :
        /\ pairs[h] = "hang"
        /\ \A j \in JobIds \ {h} : pairs[j] \in {"missing", "ok", "fail"}

\* C12: with one script that never exits and two workers or more, under fair
\* scheduling the run comes to a state in which the queue is empty, every
\* other job has its terminal command, one worker waits on the hung program
\* and every other worker has left its loop.
C12_HungScriptIsolated ==
    (OneHang /\ jobs >= 2) =>
        <>(/\ scripts = <<>>
           /\ \A j \in JobIds : pairs[j] # "hang" => TerminalAt(sent[j]) # {}
           /\ Cardinality({w \in Workers : wpc[w] = "wait"}) = 1
           /\ \A w \in Workers : wpc[w] \in {"wait", "done", "unspawned"})

\* the first job hangs in one worker, the other worker has reported the
\* second job and left
C12_Witness ==
    /\ N = 2 /\ pairs[1] = "hang" /\ jobs = 2
    /\ \E w, v \in Workers : wpc[w] = "wait" /\ script[w] = 1 /\ wpc[v] = "done"
    /\ TerminalAt(sent[2]) # {}

\* C15: with one worker or more and a list in which every program that is
\* started exits, under fair scheduling the process ends; if the list is not
\* empty, every worker has then seen the empty queue and left, Terminate was
\* sent and the flag was loaded.  Once set up, the queue never grows, so
\* that the empty queue stays empty.
C15_Termination ==
    /\ (Terminating /\ jobs >= 1) =>
          <>(/\ exitcode \in {0, 1}
             /\ pairs # <<>> =>
                   /\ scripts = <<>>
                   /\ \A w \in Workers : w <= jobs => wpc[w] = "done"
                   /\ TerminateSent /\ loaded)
    /\ [][SetUp => Len(scripts') <= Len(scripts)]_vars

\* the process has ended after two workers drained a two-job queue
C15_Witness ==
    /\ jobs = 2 /\ N = 2 /\ Terminating
    /\ exitcode \in {0, 1} /\ loaded
    /\ scripts = <<>> /\ \A w \in Workers : wpc[w] = "done"

\* the text without its final "\n", if it has one
Chomp(t) ==
    IF t # <<>> /\ t[Len(t)] = "\n" THEN SubSeq(t, 1, Len(t) - 1) ELSE t

\* header, newline, and the captured text up to its final newline
Block(header, t) == header \o <<"\n">> \o Chomp(t)

\* C13: the output built from a result is absent exactly if the script
\* succeeded.  For a failed script it is the "Output:" block if stdout is
\* not empty, the "Error:" block if stderr is not empty, both in this order
\* with a newline between them, and the empty text if both are empty; a
\* block is its header, a newline and the captured text up to its final
\* newline.  Exit 1 with stdout "a\nb" and no stderr gives "Output:\na\nb".
C13_AssembledOutput ==
    output.built =>
        /\ output.some <=> ~result.success
        /\ ~result.success =>
              output.text =
                 CASE result.stdout # <<>> /\ result.stderr # <<>> ->
                         Block(OutputHeader, result.stdout) \o <<"\n">>
                            \o Block(ErrorHeader, result.stderr)
                   [] result.stdout # <<>> /\ result.stderr = <<>> ->
                         Block(OutputHeader, result.stdout)
                   [] result.stdout = <<>> /\ result.stderr # <<>> ->
                         Block(ErrorHeader, result.stderr)
                   [] OTHER -> <<>>
        /\ (~result.success /\ result.stdout = <<"a", "\n", "b">>
              /\ result.stderr = <<>>)
              => output.text = <<"O", "u", "t", "p", "u", "t", ":", "\n",
                                 "a", "\n", "b">>

\* the output of a failed script that printed lines to both streams, stdout
\* ending in a newline
C13_Witness ==
    /\ output.built /\ output.some /\ ~result.success
    /\ result.stdout = <<"a", "\n">>
    /\ result.stderr = <<"b", "\n", "a">>

====
